---------------------------- MODULE Spec2Model ----------------------------
(***************************************************************************)
(* A model of pool/store.py: FarmerRecord and PoolStore, the sqlite-backed *)
(* account registry and partial ledger of the pool.  The store owns ONE    *)
(* aiosqlite connection shared by every coroutine; every handler is a      *)
(* sequence of awaits (execute, fetch, commit) between which the other     *)
(* coroutines run.  The asyncio.Lock created in PoolStore.create is never  *)
(* acquired by any handler.                                                *)
(*                                                                         *)
(* Values.  bytes are sequences of integers 0..255, str is a sequence of   *)
(* one-character strings.  A Python int n >= 0 (points, difficulty,        *)
(* timestamp: 64-bit quantities) is the sequence of its base-65536 digits, *)
(* least significant first and without leading zero digits, so that the    *)
(* values around 2^63 and 2^64 are the real ones.  A table is the sequence *)
(* of its rows in rowid order.                                             *)
(***************************************************************************)
EXTENDS Integers, Sequences, FiniteSets, TLC

VARIABLES
    farmer,     \* table farmer as the shared connection sees it (rowid order)
    partial,    \* table partial as the shared connection sees it (rowid order)
    txn,        \* the callers whose statements sit in the connection's open transaction
    committed,  \* both tables as of the last commit: the durable database
    pc,         \* per caller: the await its handler is suspended at
    cur,        \* per caller: the handler in flight, its arguments and open cursor
    last        \* the step taken last: handler, caller, arguments, outcome

vars == <<farmer, partial, txn, committed, pc, cur, last>>

---------------------------------------------------------------------------
(* Sizes and integer widths.                                               *)

\* bytes32 (chia sized_bytes): exactly 32 bytes
BYTES32_SIZE == 32

\* the ledger holds at most this many rows in the model
MaxPartials == 1
\* the ledger holds at most this many rows where the recency query is studied
MaxLedger == 3
\* at most this many callers are inside a handler at the same time
MaxInFlight == 2

RECURSIVE Repeat(_, _)
Repeat(s, n) == IF n = 0 THEN <<>> ELSE s \o Repeat(s, n - 1)

Range(s) == {s[i] : i \in 1..Len(s)}

---------------------------------------------------------------------------
(* Python ints beyond the checker's 32-bit integers.                       *)

Base == 256 * 256

\* the int of a number below Base
PyInt(n) == IF n = 0 THEN <<>> ELSE <<n>>

Digit(a, i) == IF i <= Len(a) THEN a[i] ELSE 0

\* the int of any natural number
RECURSIVE int_digits(_)
int_digits(n) == IF n = 0 THEN <<>> ELSE <<n % Base>> \o int_digits(n \div Base)

\* the number an int is, where it is small enough to be a number of rows
RECURSIVE int_value(_)
int_value(a) == IF a = <<>> THEN 0 ELSE Head(a) + Base * int_value(Tail(a))

\* a + b
RECURSIVE AddFrom(_, _, _, _)
AddFrom(a, b, i, carry) ==
    IF i > Len(a) /\ i > Len(b)
    THEN IF carry = 0 THEN <<>> ELSE <<carry>>
    ELSE <<(Digit(a, i) + Digit(b, i) + carry) % Base>>
         \o AddFrom(a, b, i + 1, (Digit(a, i) + Digit(b, i) + carry) \div Base)

Add(a, b) == AddFrom(a, b, 1, 0)

\* a <= b
RECURSIVE LessEqFrom(_, _, _)
LessEqFrom(a, b, i) ==
    IF i = 0 THEN TRUE
    ELSE IF a[i] # b[i] THEN a[i] < b[i]
    ELSE LessEqFrom(a, b, i - 1)

LessEq(a, b) ==
    IF Len(a) # Len(b) THEN Len(a) < Len(b) ELSE LessEqFrom(a, b, Len(a))

\* SQLite INTEGER is a signed 64-bit value: the largest is 2^63 - 1
SQLITE_MAX_INT == <<65535, 65535, 65535, 32767>>
\* 2^63, the least uint64 that is no SQLite INTEGER
TWO_63 == Add(SQLITE_MAX_INT, PyInt(1))
\* uint64 (chia.util.ints): 0 .. 2^64 - 1
UINT64_MAX == <<65535, 65535, 65535, 65535>>

---------------------------------------------------------------------------
(* Conversions: bytes.hex(), bytes.fromhex(), bytes32(), sqlite3 binding.  *)

HexDigits == <<"0", "1", "2", "3", "4", "5", "6", "7",
               "8", "9", "a", "b", "c", "d", "e", "f">>

\* bytes.hex(): two lowercase digits per byte, the high one first
hex(b) ==
    [i \in 1..2 * Len(b) |->
        IF i % 2 = 1 THEN HexDigits[(b[(i + 1) \div 2] \div 16) + 1]
        ELSE HexDigits[(b[i \div 2] % 16) + 1]]

\* the value of a hexadecimal digit, either case; 16 for any other character
digitvalue(c) ==
    CASE c = "0" -> 0  [] c = "1" -> 1  [] c = "2" -> 2  [] c = "3" -> 3
      [] c = "4" -> 4  [] c = "5" -> 5  [] c = "6" -> 6  [] c = "7" -> 7
      [] c = "8" -> 8  [] c = "9" -> 9
      [] c \in {"a", "A"} -> 10  [] c \in {"b", "B"} -> 11
      [] c \in {"c", "C"} -> 12  [] c \in {"d", "D"} -> 13
      [] c \in {"e", "E"} -> 14  [] c \in {"f", "F"} -> 15
      [] OTHER -> 16

\* the ASCII whitespace of Python: space, \t, \n, \r, \f and the vertical tab
\* (character 11, which has no escape and stands in the text itself)
ASCII_WHITESPACE == {" ", "\t", "\n", "\r", "\f", ""}

\* bytes.fromhex(): ASCII whitespace between bytes is skipped, the two digits
\* of a byte are adjacent, digits of either case; anything else is ValueError
fromhex(s) ==
    LET at == SelectSeq([i \in 1..Len(s) |-> i], LAMBDA i : s[i] \notin ASCII_WHITESPACE)
        n == Len(at) \div 2
    IN  IF /\ Len(at) % 2 = 0
           /\ \A k \in 1..n : /\ at[2 * k] = at[2 * k - 1] + 1
                              /\ digitvalue(s[at[2 * k - 1]]) < 16
                              /\ digitvalue(s[at[2 * k]]) < 16
        THEN [ok |-> TRUE,
              val |-> [k \in 1..n |-> 16 * digitvalue(s[at[2 * k - 1]])
                                      + digitvalue(s[at[2 * k]])]]
        ELSE [ok |-> FALSE, val |-> <<>>]

\* bytes32(b): ValueError unless b is 32 bytes long
bytes32(b) ==
    IF Len(b) = BYTES32_SIZE THEN [ok |-> TRUE, val |-> b]
    ELSE [ok |-> FALSE, val |-> <<>>]

\* sqlite3 binds a Python int as INTEGER and raises OverflowError beyond 64
\* signed bits (the ints of this store are never negative)
BindsAsInteger(n) == LessEq(n, SQLITE_MAX_INT)

\* a Python int of either sign (count of get_recent_partials): sign and magnitude
SignedInt(neg, n) == [neg |-> neg /\ n # 0, abs |-> PyInt(n)]

\* the same for an int of either sign: -2^63 .. 2^63 - 1
BindsSignedAsInteger(count) ==
    IF count.neg THEN LessEq(count.abs, TWO_63) ELSE LessEq(count.abs, SQLITE_MAX_INT)

\* uint64(n) (chia.util.ints) of an int read from an INTEGER column
uint64(n) == IF LessEq(n, UINT64_MAX) THEN [ok |-> TRUE, val |-> n]
             ELSE [ok |-> FALSE, val |-> <<>>]

\* sqlite3 binds str as TEXT and bytes (bytes32 is a bytes subclass) as BLOB
BindText(s) == [class |-> "text", val |-> s]
BindBlob(b) == [class |-> "blob", val |-> b]

\* column = ? on a column holding TEXT: a BLOB never equals a TEXT value
TextColumnEquals(stored, param) == param.class = "text" /\ param.val = stored

---------------------------------------------------------------------------
(* The serialized objects.  G1Element, CoinSolution and PoolState are      *)
(* opaque to the store: an object is modelled by a record around its       *)
(* canonical serialization, bytes(x) takes it out and from_bytes wraps it. *)

G1Element_from_bytes(b) == [g1 |-> b]
G1Element_bytes(k) == k.g1
CoinSolution_from_bytes(b) == [coin_solution |-> b]
CoinSolution_bytes(c) == c.coin_solution
PoolState_from_bytes(b) == [pool_state |-> b]
PoolState_bytes(p) == p.pool_state

FarmerRecord(lid, ph, key, tip, state, points, difficulty, payout, member) ==
    [launcher_id |-> lid, p2_singleton_puzzle_hash |-> ph,
     authentication_public_key |-> key, singleton_tip |-> tip,
     singleton_tip_state |-> state, points |-> points, difficulty |-> difficulty,
     payout_instructions |-> payout, is_pool_member |-> member]

\* int(bool)
int_of_bool(b) == IF b THEN 1 ELSE 0

\* the nine values add_farmer_record binds, as the row they become
row_of_farmer_record(r) ==
    [launcher_id |-> hex(r.launcher_id),
     p2_singleton_puzzle_hash |-> hex(r.p2_singleton_puzzle_hash),
     authentication_public_key |-> hex(G1Element_bytes(r.authentication_public_key)),
     singleton_tip |-> CoinSolution_bytes(r.singleton_tip),
     singleton_tip_state |-> PoolState_bytes(r.singleton_tip_state),
     points |-> r.points,
     difficulty |-> r.difficulty,
     payout_instructions |-> r.payout_instructions,
     is_pool_member |-> int_of_bool(r.is_pool_member)]

\* PoolStore._row_to_farmer_record (rows hold hex text written by add_farmer_record)
row_to_farmer_record(row) ==
    FarmerRecord(fromhex(row.launcher_id).val,
                 fromhex(row.p2_singleton_puzzle_hash).val,
                 G1Element_from_bytes(fromhex(row.authentication_public_key).val),
                 CoinSolution_from_bytes(row.singleton_tip),
                 PoolState_from_bytes(row.singleton_tip_state),
                 row.points,
                 row.difficulty,
                 row.payout_instructions,
                 row.is_pool_member = 1)

---------------------------------------------------------------------------
(* The SQL statements, as functions of the table they run on.              *)

\* the positions of the rows whose launcher_id equals the bound parameter
MatchingRows(tbl, param) ==
    {i \in 1..Len(tbl) : TextColumnEquals(tbl[i].launcher_id, param)}

RECURSIVE DeleteRows(_, _)
DeleteRows(tbl, param) ==
    IF tbl = <<>> THEN <<>>
    ELSE IF TextColumnEquals(Head(tbl).launcher_id, param)
         THEN DeleteRows(Tail(tbl), param)
    ELSE <<Head(tbl)>> \o DeleteRows(Tail(tbl), param)

\* INSERT OR REPLACE INTO farmer VALUES(...): launcher_id is the PRIMARY KEY, so
\* the row holding the same key is deleted and the new row gets a fresh,
\* largest rowid: it is the last row of the table
insert_or_replace_farmer(tbl, row) ==
    Append(DeleteRows(tbl, BindText(row.launcher_id)), row)

\* UPDATE farmer SET difficulty=? WHERE launcher_id=?
update_difficulty_statement(tbl, difficulty, param) ==
    [i \in 1..Len(tbl) |->
        IF TextColumnEquals(tbl[i].launcher_id, param)
        THEN [tbl[i] EXCEPT !.difficulty = difficulty]
        ELSE tbl[i]]

\* UPDATE farmer SET singleton_tip=?, singleton_tip_state=?, is_pool_member=?
\* WHERE launcher_id=?
update_singleton_statement(tbl, tip, state, member, param) ==
    [i \in 1..Len(tbl) |->
        IF TextColumnEquals(tbl[i].launcher_id, param)
        THEN [tbl[i] EXCEPT !.singleton_tip = tip,
                            !.singleton_tip_state = state,
                            !.is_pool_member = member]
        ELSE tbl[i]]

\* a reset that skips the farmers who left the pool:
\* UPDATE farmer set points=0 WHERE is_pool_member=1
clear_farmer_points_of_members(tbl) ==
    [i \in 1..Len(tbl) |->
        IF tbl[i].is_pool_member = 1 THEN [tbl[i] EXCEPT !.points = PyInt(0)] ELSE tbl[i]]

\* UPDATE farmer set points=0
clear_farmer_points_statement(tbl) ==
    [i \in 1..Len(tbl) |-> [tbl[i] EXCEPT !.points = PyInt(0)]]

\* SELECT * from farmer where launcher_id=?  (at most one row: PRIMARY KEY)
select_farmer_by_launcher_id(tbl, param) ==
    IF MatchingRows(tbl, param) = {} THEN <<>>
    ELSE <<tbl[CHOOSE i \in MatchingRows(tbl, param) : TRUE]>>

\* the column list of SELECT points, payout_instructions from farmer
points_and_payout(row) ==
    [points |-> row.points, payout_instructions |-> row.payout_instructions]

\* INSERT into partial VALUES(?, ?, ?)
insert_partial(tbl, launcher_id, timestamp, difficulty) ==
    Append(tbl, [launcher_id |-> launcher_id, timestamp |-> timestamp,
                 difficulty |-> difficulty])

\* the rows of partial whose launcher_id equals the bound parameter, as
\* (timestamp, difficulty), in rowid order
RECURSIVE partials_of(_, _)
partials_of(tbl, param) ==
    IF tbl = <<>> THEN <<>>
    ELSE (IF TextColumnEquals(Head(tbl).launcher_id, param)
          THEN <<[timestamp |-> Head(tbl).timestamp, difficulty |-> Head(tbl).difficulty]>>
          ELSE <<>>) \o partials_of(Tail(tbl), param)

\* ORDER BY timestamp DESC through the sorter: rows of equal timestamp stay in
\* the order they were read in (rowid order)
RECURSIVE order_by_timestamp_desc(_)
order_by_timestamp_desc(rows) ==
    IF rows = <<>> THEN <<>>
    ELSE LET r == rows[Len(rows)]
             sorted == order_by_timestamp_desc(SubSeq(rows, 1, Len(rows) - 1))
             k == Cardinality({i \in 1..Len(sorted) : LessEq(r.timestamp, sorted[i].timestamp)})
         IN  SubSeq(sorted, 1, k) \o <<r>> \o SubSeq(sorted, k + 1, Len(sorted))

\* LIMIT ?: a negative limit is no limit
limit(rows, count) ==
    IF count.neg \/ LessEq(int_digits(Len(rows)), count.abs) THEN rows
    ELSE SubSeq(rows, 1, int_value(count.abs))

\* the same query with the order turned round:
\* ... ORDER BY timestamp ASC LIMIT ?
select_oldest_partials(tbl, param, count) ==
    LET rows == order_by_timestamp_desc(partials_of(tbl, param))
    IN  limit([i \in 1..Len(rows) |-> rows[Len(rows) + 1 - i]], count)

\* SELECT timestamp, difficulty from partial WHERE launcher_id=?
\* ORDER BY timestamp DESC LIMIT ?
select_recent_partials(tbl, param, count) ==
    limit(order_by_timestamp_desc(partials_of(tbl, param)), count)

\* a < b for two hex texts (BINARY collation: the first differing character
\* decides, digits sort before the lower-case letters; a proper prefix is less)
hex_text_less(a, b) ==
    LET n == IF Len(a) < Len(b) THEN Len(a) ELSE Len(b)
    IN  IF \A i \in 1..n : a[i] = b[i] THEN Len(a) < Len(b)
        ELSE LET i == CHOOSE i \in 1..n : a[i] # b[i] /\ \A j \in 1..i - 1 : a[j] = b[j]
             IN  digitvalue(a[i]) < digitvalue(b[i])

\* index scan_ph on farmer(p2_singleton_puzzle_hash): entry i of the table
\* sorts before entry j
scan_ph_before(tbl, i, j) ==
    \/ hex_text_less(tbl[i].p2_singleton_puzzle_hash, tbl[j].p2_singleton_puzzle_hash)
    \/ /\ tbl[i].p2_singleton_puzzle_hash = tbl[j].p2_singleton_puzzle_hash
       /\ i < j

\* the positions S of the table in the order of the index
RECURSIVE scan_ph_order(_, _)
scan_ph_order(tbl, S) ==
    IF S = {} THEN <<>>
    ELSE LET first == CHOOSE i \in S : \A j \in S \ {i} : scan_ph_before(tbl, i, j)
         IN  <<first>> \o scan_ph_order(tbl, S \ {first})

\* the entries of the index whose puzzle hash is one of the texts phs and that
\* lie behind an open cursor c (all of them when the cursor has read no row:
\* the cursor stands on the puzzle hash it read last and on the row's position)
scan_ph_behind(tbl, phs, c) ==
    {i \in 1..Len(tbl) :
        /\ tbl[i].p2_singleton_puzzle_hash \in phs
        /\ \/ c.rows = <<>>
           \/ hex_text_less(c.rows[Len(c.rows)].p2_singleton_puzzle_hash,
                            tbl[i].p2_singleton_puzzle_hash)
           \/ /\ c.rows[Len(c.rows)].p2_singleton_puzzle_hash
                    = tbl[i].p2_singleton_puzzle_hash
              /\ i > c.pos}

\* the query with its WHERE clause lost: SELECT * from farmer, through the index
select_farmers_of_any_puzzle_hash(tbl, phs, c) ==
    scan_ph_order(tbl, scan_ph_behind(
                           tbl, {tbl[i].p2_singleton_puzzle_hash : i \in 1..Len(tbl)}, c))

\* SELECT * from farmer WHERE p2_singleton_puzzle_hash in (?, ..., ?): the
\* positions of the rows in the order the statement steps through them
select_farmers_by_puzzle_hashes(tbl, phs, c) ==
    scan_ph_order(tbl, scan_ph_behind(tbl, phs, c))

\* SELECT p2_singleton_puzzle_hash from farmer (a scan of the covering index)
select_puzzle_hashes(tbl, c) ==
    scan_ph_order(tbl, scan_ph_behind(
                           tbl, {tbl[i].p2_singleton_puzzle_hash : i \in 1..Len(tbl)}, c))

\* what get_farmer_record returns when it runs alone on table tbl
Get(tbl, launcher_id) ==
    LET rows == select_farmer_by_launcher_id(tbl, BindText(hex(launcher_id)))
    IN  IF rows = <<>> THEN [kind |-> "None", val |-> <<>>]
        ELSE [kind |-> "FarmerRecord", val |-> row_to_farmer_record(rows[1])]

---------------------------------------------------------------------------
(* get_farmer_points_and_payout_instructions: the loop over the rows.      *)

\* ph = bytes32(bytes.fromhex(row[1])): the key of the accumulation
payout_key(payout_instructions) ==
    IF fromhex(payout_instructions).ok
    THEN bytes32(fromhex(payout_instructions).val)
    ELSE [ok |-> FALSE, val |-> <<>>]

\* accumulated: the dict as the sequence of its (total_points, ph) items in
\* insertion order; a key already present has the points added to its total
RECURSIVE accumulate(_, _)
accumulate(rows, acc) ==
    IF rows = <<>> THEN acc
    ELSE LET ph == payout_key(Head(rows).payout_instructions).val
             at == {i \in 1..Len(acc) : acc[i].ph = ph}
         IN  IF at = {}
             THEN accumulate(Tail(rows),
                             Append(acc, [total_points |-> Head(rows).points, ph |-> ph]))
             ELSE accumulate(Tail(rows),
                             [i \in 1..Len(acc) |->
                                 IF i \in at
                                 THEN [acc[i] EXCEPT !.total_points = Add(@, Head(rows).points)]
                                 ELSE acc[i]])

\* the value returned for the fetched rows, or the ValueError of the first
\* payout_instructions that is not the hex of 32 bytes
points_and_payout_instructions_result(rows) ==
    IF \E i \in 1..Len(rows) : ~payout_key(rows[i].payout_instructions).ok
    THEN [kind |-> "ValueError", val |-> <<>>]
    ELSE [kind |-> "list", val |-> accumulate(rows, <<>>)]

---------------------------------------------------------------------------
(* The callers of the store and the values they pass.                      *)

\* front end and chain watcher run the registry and ledger handlers; the
\* payout engine aggregates the points, then clears them. The front end
\* serves its requests in tasks of their own: two of them
Callers == {"fe", "fe2", "cw"}
PayoutEngine == "pe"
Procs == Callers \cup {PayoutEngine}

L1 == Repeat(<<171>>, BYTES32_SIZE)
L2 == Repeat(<<205>>, BYTES32_SIZE)
LauncherIds == {L1, L2}

PH1 == Repeat(<<1>>, BYTES32_SIZE)
PH2 == Repeat(<<2>>, BYTES32_SIZE)
\* keys, coin solutions and pool states stand for their serializations, which
\* the store never looks into
KEY1 == G1Element_from_bytes(<<160, 15>>)
KEY2 == G1Element_from_bytes(<<176, 9>>)
TIP1 == CoinSolution_from_bytes(<<1, 255>>)
TIP2 == CoinSolution_from_bytes(<<2, 0>>)
TIP3 == CoinSolution_from_bytes(<<3>>)
STATE1 == PoolState_from_bytes(<<1, 1>>)
STATE2 == PoolState_from_bytes(<<1, 3>>)
STATE3 == PoolState_from_bytes(<<1, 2, 7>>)

\* payout instructions: the hex of 32 bytes in lower case, the same bytes in
\* upper case, and an address that is no hex string
PAYOUT_LOWER == Repeat(<<"a", "b">>, BYTES32_SIZE)
PAYOUT_UPPER == Repeat(<<"A", "B">>, BYTES32_SIZE)
PAYOUT_ADDRESS == <<"x", "c", "h", "1", "q">>

\* the records a farmer registers with: two that differ in all eight fields
\* beside the key, one with no points and a plain address, and two whose
\* points or difficulty lie in the upper half of the uint64 range
RecordsOf(lid) ==
    { FarmerRecord(lid, PH1, KEY1, TIP1, STATE1, PyInt(5), PyInt(1), PAYOUT_LOWER, TRUE),
      FarmerRecord(lid, PH2, KEY2, TIP2, STATE2, SQLITE_MAX_INT, PyInt(2), PAYOUT_UPPER, FALSE),
      FarmerRecord(lid, PH1, KEY2, TIP1, STATE2, PyInt(0), PyInt(1), PAYOUT_ADDRESS, TRUE),
      FarmerRecord(lid, PH1, KEY1, TIP1, STATE1, TWO_63, PyInt(1), PAYOUT_LOWER, TRUE),
      FarmerRecord(lid, PH2, KEY2, TIP2, STATE2, PyInt(5), UINT64_MAX, PAYOUT_LOWER, FALSE) }

Records == UNION {RecordsOf(lid) : lid \in LauncherIds}

Difficulties == {PyInt(0), PyInt(3), TWO_63}

Singletons ==
    { [singleton_tip |-> TIP2, singleton_tip_state |-> STATE2, is_pool_member |-> FALSE],
      [singleton_tip |-> TIP3, singleton_tip_state |-> STATE3, is_pool_member |-> TRUE] }

Timestamps == {PyInt(10), TWO_63}

PartialOf(launcher_id, timestamp, difficulty) ==
    [launcher_id |-> launcher_id, timestamp |-> timestamp, difficulty |-> difficulty]

Partials == {PartialOf(id, ts, PyInt(1)) : id \in LauncherIds, ts \in Timestamps}

\* the partials of the recency query: three of one farmer, two of them with
\* the same timestamp, and one of another farmer
RecentPartials ==
    { PartialOf(L1, PyInt(10), PyInt(1)), PartialOf(L1, PyInt(20), PyInt(1)),
      PartialOf(L1, PyInt(20), PyInt(2)), PartialOf(L2, PyInt(20), PyInt(1)) }

\* count: negative, zero, up to the size of the ledger, and 2^63
Counts ==
    {SignedInt(TRUE, 1), SignedInt(FALSE, 0), SignedInt(FALSE, 1), SignedInt(FALSE, 2),
     SignedInt(FALSE, 3), [neg |-> FALSE, abs |-> TWO_63]}

---------------------------------------------------------------------------
(* State of a caller.                                                      *)

NoArg == [none |-> TRUE]

\* no handler in flight
Idle == [op |-> "none", arg |-> NoArg, rows |-> <<>>, pos |-> 0, eof |-> TRUE,
         seen |-> <<>>, overlap |-> {}]

InFlight(op, arg) == [Idle EXCEPT !.op = op, !.arg = arg]

Ok == [kind |-> "ok", val |-> <<>>]
OverflowError == [kind |-> "OverflowError", val |-> <<>>]
\* sqlite3.OperationalError: too many SQL variables
OperationalError == [kind |-> "OperationalError", val |-> <<>>]

Step(op, step, t, arg, out) ==
    [op |-> op, step |-> step, proc |-> t, arg |-> arg, out |-> out]

Init ==
    /\ farmer = <<>>
    /\ partial = <<>>
    /\ txn = {}
    /\ committed = [farmer |-> <<>>, partial |-> <<>>]
    /\ pc = [t \in Procs |-> "idle"]
    /\ cur = [t \in Procs |-> Idle]
    /\ last = Step("create", "return", "none", NoArg, Ok)

\* a write statement of caller t ran on the connection: sqlite3 opened a
\* transaction if none was open, and t goes on to cursor.close() and commit()
Executed(t, op, arg) ==
    /\ txn' = txn \cup {t}
    /\ pc' = [pc EXCEPT ![t] = "commit"]
    /\ last' = Step(op, "execute", t, arg, Ok)
    /\ UNCHANGED committed

\* the handler raised out of connection.execute: nothing ran, nothing is committed
Raised(t, op, arg, error) ==
    /\ last' = Step(op, "raise", t, arg, error)
    /\ UNCHANGED <<farmer, partial, txn, committed, pc, cur>>

\* a handler that returns with its commit left out
returned_without_commit(t, op) ==
    /\ pc[t] = "commit"
    /\ cur[t].op = op
    /\ pc' = [pc EXCEPT ![t] = "idle"]
    /\ cur' = [cur EXCEPT ![t] = Idle]
    /\ last' = Step(op, "return", t, NoArg, Ok)
    /\ UNCHANGED <<farmer, partial, txn, committed>>

\* await self.connection.commit(), and the handler returns: the transaction of
\* the connection, with the statements of every caller in it, is made durable
connection_commit(t, op) ==
    /\ pc[t] = "commit"
    /\ cur[t].op = op
    /\ txn' = {}
    /\ committed' = [farmer |-> farmer, partial |-> partial]
    /\ pc' = [pc EXCEPT ![t] = "idle"]
    /\ cur' = [cur EXCEPT ![t] = Idle]
    /\ last' = Step(op, "return", t, NoArg, Ok)
    /\ UNCHANGED <<farmer, partial>>

\* caller u is inside update_singleton for this launcher_id (statement run,
\* commit not yet returned)
InUpdateSingleton(u, launcher_id) ==
    /\ pc[u] = "commit"
    /\ cur[u].op = "update_singleton"
    /\ cur[u].arg.launcher_id = launcher_id

\* history kept with a call in flight: the other writes to the same account
\* that ran while it was in flight
Overlapped(c, op, arg) == [c EXCEPT !.overlap = @ \cup {[op |-> op, arg |-> arg]}]

\* the launcher_id texts of the accounts whose points differ between two tables
PointsChanged(before, after) ==
    {before[i].launcher_id : i \in {i \in 1..Len(before) :
        \A j \in 1..Len(after) :
            after[j].launcher_id = before[i].launcher_id => after[j].points # before[i].points}}

\* history kept with a lookup by puzzle hashes in flight: the one write to
\* farmer that ran between its execute and its fetchall, with the accounts
\* whose points it changed, or the mark that several writes ran
SeenBy(u, op, before, after) ==
    IF pc[u] = "fetchall" /\ cur[u].op = "get_farmer_records_for_p2_singleton_phs"
    THEN [cur[u] EXCEPT !.overlap =
             IF @ = {}
             THEN {[op |-> op, arg |-> [changed |-> PointsChanged(before, after)]]}
             ELSE {[op |-> "several", arg |-> NoArg]}]
    ELSE cur[u]

\* a cursor scanning farmer in rowid order stands on row pos; when a row at or
\* before it is deleted, the rows behind the cursor are one fewer
CursorAfterDelete(c, deleted) ==
    [c EXCEPT !.pos = @ - Cardinality({i \in deleted : i <= c.pos})]

---------------------------------------------------------------------------
(* PoolStore.add_farmer_record                                             *)

add_farmer_record_execute(t, farmer_record) ==
    /\ pc[t] = "idle"
    /\ IF BindsAsInteger(farmer_record.points) /\ BindsAsInteger(farmer_record.difficulty)
       THEN LET row == row_of_farmer_record(farmer_record)
                deleted == MatchingRows(farmer, BindText(row.launcher_id))
            IN  /\ farmer' = insert_or_replace_farmer(farmer, row)
                /\ cur' = [u \in Procs |->
                              IF u = t THEN InFlight("add_farmer_record",
                                                     [launcher_id |-> farmer_record.launcher_id])
                              ELSE IF pc[u] = "fetchall" /\ ~cur[u].eof
                                   THEN CursorAfterDelete(
                                            SeenBy(u, "add_farmer_record", farmer,
                                                   insert_or_replace_farmer(farmer, row)),
                                            deleted)
                              ELSE IF InUpdateSingleton(u, farmer_record.launcher_id)
                                   THEN Overlapped(cur[u], "add_farmer_record",
                                                   [launcher_id |-> farmer_record.launcher_id])
                              ELSE SeenBy(u, "add_farmer_record", farmer,
                                          insert_or_replace_farmer(farmer, row))]
                /\ Executed(t, "add_farmer_record", farmer_record)
                /\ UNCHANGED partial
       ELSE Raised(t, "add_farmer_record", farmer_record, OverflowError)

add_farmer_record_commit(t) == connection_commit(t, "add_farmer_record")

---------------------------------------------------------------------------
(* PoolStore.get_farmer_record                                             *)

\* connection.execute steps the statement once: the row is read here
get_farmer_record_execute(t, launcher_id) ==
    /\ pc[t] = "idle"
    /\ pc' = [pc EXCEPT ![t] = "fetchone"]
    /\ cur' = [cur EXCEPT ![t] =
                 [InFlight("get_farmer_record", [launcher_id |-> launcher_id])
                    EXCEPT !.rows = select_farmer_by_launcher_id(
                                        farmer, BindText(hex(launcher_id)))]]
    /\ last' = Step("get_farmer_record", "execute", t, [launcher_id |-> launcher_id], Ok)
    /\ UNCHANGED <<farmer, partial, txn, committed>>

get_farmer_record_fetchone(t) ==
    /\ pc[t] = "fetchone"
    /\ cur[t].op = "get_farmer_record"
    /\ pc' = [pc EXCEPT ![t] = "idle"]
    /\ cur' = [cur EXCEPT ![t] = Idle]
    /\ last' = Step("get_farmer_record", "return", t, cur[t].arg,
                    IF cur[t].rows = <<>> THEN [kind |-> "None", val |-> <<>>]
                    ELSE [kind |-> "FarmerRecord",
                          val |-> row_to_farmer_record(cur[t].rows[1])])
    /\ UNCHANGED <<farmer, partial, txn, committed>>

---------------------------------------------------------------------------
(* PoolStore.update_difficulty                                             *)

update_difficulty_execute(t, launcher_id, difficulty) ==
    /\ pc[t] = "idle"
    /\ LET arg == [launcher_id |-> launcher_id, difficulty |-> difficulty]
       IN  IF BindsAsInteger(difficulty)
           THEN /\ farmer' = update_difficulty_statement(
                                 farmer, difficulty, BindText(hex(launcher_id)))
                /\ cur' = [u \in Procs |->
                              IF u = t THEN InFlight("update_difficulty", arg)
                              ELSE SeenBy(u, "update_difficulty", farmer,
                                          update_difficulty_statement(
                                              farmer, difficulty, BindText(hex(launcher_id))))]
                /\ Executed(t, "update_difficulty", arg)
                /\ UNCHANGED partial
           ELSE Raised(t, "update_difficulty", arg, OverflowError)

update_difficulty_commit(t) == connection_commit(t, "update_difficulty")

---------------------------------------------------------------------------
(* PoolStore.update_singleton                                              *)

\* entry = (bytes(singleton_tip), bytes(singleton_tip_state), 1 or 0, launcher_id):
\* the key is bound as the bytes32 itself, not as its hex text
update_singleton_entry(launcher_id, singleton_tip, singleton_tip_state, is_pool_member) ==
    [singleton_tip |-> CoinSolution_bytes(singleton_tip),
     singleton_tip_state |-> PoolState_bytes(singleton_tip_state),
     is_pool_member |-> IF is_pool_member THEN 1 ELSE 0,
     launcher_id |-> BindBlob(launcher_id)]

update_singleton_execute(t, launcher_id, s) ==
    /\ pc[t] = "idle"
    /\ LET arg == [launcher_id |-> launcher_id, singleton_tip |-> s.singleton_tip,
                   singleton_tip_state |-> s.singleton_tip_state,
                   is_pool_member |-> s.is_pool_member]
           entry == update_singleton_entry(launcher_id, s.singleton_tip,
                                           s.singleton_tip_state, s.is_pool_member)
       IN  /\ farmer' = update_singleton_statement(
                            farmer, entry.singleton_tip, entry.singleton_tip_state,
                            entry.is_pool_member, entry.launcher_id)
           /\ cur' = [u \in Procs |->
                         IF u = t
                         THEN [InFlight("update_singleton", arg) EXCEPT !.overlap =
                                  {[op |-> "update_singleton", arg |-> cur[v].arg] :
                                     v \in {v \in Callers \ {t} :
                                               InUpdateSingleton(v, launcher_id)}}]
                         ELSE IF InUpdateSingleton(u, launcher_id)
                              THEN Overlapped(cur[u], "update_singleton", arg)
                         ELSE SeenBy(u, "update_singleton", farmer,
                                     update_singleton_statement(
                                         farmer, entry.singleton_tip, entry.singleton_tip_state,
                                         entry.is_pool_member, entry.launcher_id))]
           /\ Executed(t, "update_singleton", arg)
           /\ UNCHANGED partial

update_singleton_commit(t) == connection_commit(t, "update_singleton")

---------------------------------------------------------------------------
(* PoolStore.get_pay_to_singleton_phs                                      *)

\* the cursor after connection.execute stepped the statement once over the
\* positions at (in step order): it has read the first row, or is at the end
Opened(c, tbl, at) ==
    IF at = <<>> THEN c
    ELSE [c EXCEPT !.rows = <<tbl[at[1]]>>, !.pos = at[1], !.eof = FALSE]

\* the rows fetchall steps through: those read already and those at (in step
\* order) of the table as it is now
Fetched(c, tbl, at) ==
    IF c.eof THEN <<>> ELSE c.rows \o [i \in 1..Len(at) |-> tbl[at[i]]]

get_pay_to_singleton_phs_execute(t) ==
    /\ pc[t] = "idle"
    /\ pc' = [pc EXCEPT ![t] = "fetchall"]
    /\ cur' = [cur EXCEPT ![t] =
                 Opened(InFlight("get_pay_to_singleton_phs", NoArg), farmer,
                        select_puzzle_hashes(farmer, Idle))]
    /\ last' = Step("get_pay_to_singleton_phs", "execute", t, NoArg, Ok)
    /\ UNCHANGED <<farmer, partial, txn, committed>>

\* all_phs.add(bytes32(bytes.fromhex(row[0]))) for every row
get_pay_to_singleton_phs_fetchall(t) ==
    /\ pc[t] = "fetchall"
    /\ cur[t].op = "get_pay_to_singleton_phs"
    /\ pc' = [pc EXCEPT ![t] = "idle"]
    /\ cur' = [cur EXCEPT ![t] = Idle]
    /\ LET rows == Fetched(cur[t], farmer, select_puzzle_hashes(farmer, cur[t]))
       IN  last' = Step("get_pay_to_singleton_phs", "return", t, NoArg,
                        [kind |-> "set",
                         val |-> {bytes32(fromhex(rows[i].p2_singleton_puzzle_hash).val).val :
                                     i \in 1..Len(rows)}])
    /\ UNCHANGED <<farmer, partial, txn, committed>>

---------------------------------------------------------------------------
(* PoolStore.get_farmer_records_for_p2_singleton_phs                       *)

\* puzzle_hashes_db: the hex texts bound to the IN list
puzzle_hashes_db(puzzle_hashes) == {hex(ph) : ph \in puzzle_hashes}

\* the statement has one ? per puzzle hash: SQLite prepares no statement of
\* more variables than this (SQLITE_MAX_VARIABLE_NUMBER of the library)
SQLITE_MAX_VARIABLE_NUMBER == 250000

\* len(puzzle_hashes) == 0: return [] with no statement run; otherwise
\* connection.execute prepares the statement, which fails for too many
\* variables, and steps it once
get_farmer_records_for_p2_singleton_phs_execute(t, puzzle_hashes) ==
    /\ pc[t] = "idle"
    /\ LET arg == [puzzle_hashes |-> puzzle_hashes]
       IN  IF puzzle_hashes = {}
           THEN /\ last' = Step("get_farmer_records_for_p2_singleton_phs", "return", t, arg,
                                [kind |-> "list", val |-> <<>>])
                /\ UNCHANGED <<pc, cur>>
           ELSE IF Cardinality(puzzle_hashes) > SQLITE_MAX_VARIABLE_NUMBER
           THEN Raised(t, "get_farmer_records_for_p2_singleton_phs", arg, OperationalError)
           ELSE /\ pc' = [pc EXCEPT ![t] = "fetchall"]
                /\ cur' = [cur EXCEPT ![t] =
                             Opened(InFlight("get_farmer_records_for_p2_singleton_phs", arg),
                                    farmer,
                                    select_farmers_by_puzzle_hashes(
                                        farmer, puzzle_hashes_db(puzzle_hashes), Idle))]
                /\ last' = Step("get_farmer_records_for_p2_singleton_phs", "execute", t, arg, Ok)
    /\ UNCHANGED <<farmer, partial, txn, committed>>

\* rows = await cursor.fetchall(), then _row_to_farmer_record of every row
get_farmer_records_for_p2_singleton_phs_fetchall(t) ==
    /\ pc[t] = "fetchall"
    /\ cur[t].op = "get_farmer_records_for_p2_singleton_phs"
    /\ pc' = [pc EXCEPT ![t] = "idle"]
    /\ cur' = [cur EXCEPT ![t] = Idle]
    /\ LET rows == Fetched(cur[t], farmer,
                           select_farmers_by_puzzle_hashes(
                               farmer, puzzle_hashes_db(cur[t].arg.puzzle_hashes), cur[t]))
       IN  last' = Step("get_farmer_records_for_p2_singleton_phs", "return", t, cur[t].arg,
                        [kind |-> "list",
                         val |-> [i \in 1..Len(rows) |-> row_to_farmer_record(rows[i])]])
    /\ UNCHANGED <<farmer, partial, txn, committed>>

---------------------------------------------------------------------------
(* PoolStore.get_farmer_points_and_payout_instructions                     *)

\* the launcher_id and points of a row the scan read (history: the SELECT
\* itself returns only points and payout_instructions)
Counted(row) == [launcher_id |-> row.launcher_id, points |-> row.points]

\* connection.execute steps the statement once: the first row of the scan is
\* read here, or the statement is finished when the table is empty
get_farmer_points_and_payout_instructions_execute(t) ==
    /\ pc[t] = "idle"
    /\ pc' = [pc EXCEPT ![t] = "fetchall"]
    /\ cur' = [cur EXCEPT ![t] =
                 IF farmer = <<>>
                 THEN InFlight("get_farmer_points_and_payout_instructions", NoArg)
                 ELSE [InFlight("get_farmer_points_and_payout_instructions", NoArg)
                         EXCEPT !.rows = <<points_and_payout(farmer[1])>>,
                                !.pos = 1, !.eof = FALSE,
                                !.seen = <<Counted(farmer[1])>>]]
    /\ last' = Step("get_farmer_points_and_payout_instructions", "execute", t, NoArg, Ok)
    /\ UNCHANGED <<farmer, partial, txn, committed>>

\* cursor.fetchall() steps through the rows behind the cursor as they are now,
\* then the loop accumulates; the payout engine is handed the list
get_farmer_points_and_payout_instructions_fetchall(t) ==
    /\ pc[t] = "fetchall"
    /\ cur[t].op = "get_farmer_points_and_payout_instructions"
    /\ LET rest == IF cur[t].eof THEN <<>>
                   ELSE SubSeq(farmer, cur[t].pos + 1, Len(farmer))
           rows == cur[t].rows \o [i \in 1..Len(rest) |-> points_and_payout(rest[i])]
           ret  == points_and_payout_instructions_result(rows)
       IN  /\ last' = Step("get_farmer_points_and_payout_instructions",
                           IF ret.kind = "list" THEN "return" ELSE "raise", t, NoArg, ret)
           /\ IF ret.kind = "list"
              THEN /\ pc' = [pc EXCEPT ![t] = "handoff"]
                   /\ cur' = [cur EXCEPT ![t].rows = <<>>,
                                         ![t].seen = @ \o [i \in 1..Len(rest) |-> Counted(rest[i])]]
              ELSE /\ pc' = [pc EXCEPT ![t] = "idle"]
                   /\ cur' = [cur EXCEPT ![t] = Idle]
    /\ UNCHANGED <<farmer, partial, txn, committed>>

---------------------------------------------------------------------------
(* PoolStore.clear_farmer_points                                           *)

\* called by the payout engine once the totals of a round are paid out
\* (round), or on its own.  History: how many rows held points before.
clear_farmer_points_execute(t) ==
    /\ pc[t] \in {"idle", "handoff"}
    /\ farmer' = clear_farmer_points_statement(farmer)
    /\ cur' = [u \in Procs |->
                  IF u = t THEN InFlight("clear_farmer_points", [round |-> pc[t] = "handoff"])
                  ELSE SeenBy(u, "clear_farmer_points", farmer,
                              clear_farmer_points_statement(farmer))]
    /\ Executed(t, "clear_farmer_points",
                [round |-> pc[t] = "handoff",
                 nonzero |-> Cardinality({i \in 1..Len(farmer) : farmer[i].points # PyInt(0)})])
    /\ UNCHANGED partial

clear_farmer_points_commit(t) == connection_commit(t, "clear_farmer_points")

---------------------------------------------------------------------------
(* PoolStore.add_partial                                                   *)

add_partial_execute(t, launcher_id, timestamp, difficulty) ==
    /\ pc[t] = "idle"
    /\ LET arg == [launcher_id |-> launcher_id, timestamp |-> timestamp,
                   difficulty |-> difficulty]
       IN  IF BindsAsInteger(timestamp) /\ BindsAsInteger(difficulty)
           THEN /\ partial' = insert_partial(partial, hex(launcher_id), timestamp, difficulty)
                /\ cur' = [cur EXCEPT ![t] = InFlight("add_partial", arg)]
                /\ Executed(t, "add_partial", arg)
                /\ UNCHANGED farmer
           ELSE Raised(t, "add_partial", arg, OverflowError)

add_partial_commit(t) == connection_commit(t, "add_partial")

---------------------------------------------------------------------------
(* PoolStore.get_recent_partials                                           *)

\* connection.execute steps the statement once: ORDER BY runs through a sorter,
\* which reads every matching row before the first row comes out
get_recent_partials_execute(t, launcher_id, count) ==
    /\ pc[t] = "idle"
    /\ LET arg == [launcher_id |-> launcher_id, count |-> count]
       IN  IF BindsSignedAsInteger(count)
           THEN /\ pc' = [pc EXCEPT ![t] = "fetchall"]
                /\ cur' = [cur EXCEPT ![t] =
                             [InFlight("get_recent_partials", arg)
                                EXCEPT !.rows = select_recent_partials(
                                                    partial, BindText(hex(launcher_id)), count)]]
                /\ last' = Step("get_recent_partials", "execute", t, arg, Ok)
                /\ UNCHANGED <<farmer, partial, txn, committed>>
           ELSE Raised(t, "get_recent_partials", arg, OverflowError)

\* rows = await cursor.fetchall(), then the list of (uint64, uint64) pairs
get_recent_partials_fetchall(t) ==
    /\ pc[t] = "fetchall"
    /\ cur[t].op = "get_recent_partials"
    /\ pc' = [pc EXCEPT ![t] = "idle"]
    /\ cur' = [cur EXCEPT ![t] = Idle]
    /\ last' = Step("get_recent_partials", "return", t, cur[t].arg,
                    [kind |-> "list",
                     val |-> [i \in 1..Len(cur[t].rows) |->
                                <<uint64(cur[t].rows[i].timestamp).val,
                                  uint64(cur[t].rows[i].difficulty).val>>]])
    /\ UNCHANGED <<farmer, partial, txn, committed>>

---------------------------------------------------------------------------
(* The callers' programs (who calls what: the front end registers farmers, *)
(* sets difficulties, reports singleton changes, appends partials and      *)
(* looks farmers up; the chain watcher reports singleton changes; the      *)
(* payout engine aggregates, pays, then clears) and the two environments.  *)

FrontEnd == {"fe", "fe2"}
SingletonReporter == Callers
ChainWatcher == {"cw"}
Payout == {PayoutEngine}

\* every value of the input sets above; the partials are those of one farmer,
\* the recency query is asked for both
AllInputs ==
    [records |-> Records, launcher_ids |-> LauncherIds, difficulties |-> Difficulties,
     singletons |-> Singletons, partials |-> {p \in Partials : p.launcher_id = L1},
     counts |-> {SignedInt(FALSE, 1)}, ledger_cap |-> MaxPartials,
     puzzle_hash_sets |-> SUBSET {PH1, PH2}]

\* two farmers with one record each and one value for every other argument,
\* for the interleavings
FewInputs ==
    [records |-> {FarmerRecord(L1, PH1, KEY1, TIP1, STATE1, PyInt(5), PyInt(1),
                               PAYOUT_LOWER, TRUE),
                  FarmerRecord(L2, PH2, KEY2, TIP2, STATE2, SQLITE_MAX_INT, PyInt(2),
                               PAYOUT_UPPER, FALSE)},
     launcher_ids |-> {L1}, difficulties |-> {PyInt(3)},
     singletons |-> Singletons, partials |-> {PartialOf(L1, PyInt(10), PyInt(1))},
     counts |-> {SignedInt(FALSE, 1)}, ledger_cap |-> MaxPartials,
     puzzle_hash_sets |-> {{}, {PH1, PH2}}]

\* one farmer and every partial and count of the recency query
LedgerInputs ==
    [records |-> {FarmerRecord(L1, PH1, KEY1, TIP1, STATE1, PyInt(5), PyInt(1),
                               PAYOUT_LOWER, TRUE)},
     launcher_ids |-> LauncherIds, difficulties |-> {PyInt(3)},
     singletons |-> {[singleton_tip |-> TIP2, singleton_tip_state |-> STATE2,
                      is_pool_member |-> FALSE]},
     partials |-> RecentPartials, counts |-> Counts, ledger_cap |-> MaxLedger,
     puzzle_hash_sets |-> {{}, {PH1}}]

\* one farmer and one value for every argument, for the interleavings of
\* more than two callers
OneFarmerInputs ==
    [records |-> {FarmerRecord(L1, PH1, KEY1, TIP1, STATE1, PyInt(5), PyInt(1),
                               PAYOUT_LOWER, TRUE)},
     launcher_ids |-> {L1}, difficulties |-> {PyInt(3)},
     singletons |-> {[singleton_tip |-> TIP2, singleton_tip_state |-> STATE2,
                      is_pool_member |-> FALSE]},
     partials |-> {PartialOf(L1, PyInt(10), PyInt(1))},
     counts |-> {SignedInt(FALSE, 1)}, ledger_cap |-> MaxPartials,
     puzzle_hash_sets |-> {{}, {PH1}}]

\* i.to_bytes(32, "big") of a number below 2^24
bytes32_of(i) ==
    [j \in 1..BYTES32_SIZE |->
        IF j = BYTES32_SIZE THEN i % 256
        ELSE IF j = BYTES32_SIZE - 1 THEN (i \div 256) % 256
        ELSE IF j = BYTES32_SIZE - 2 THEN (i \div 65536) % 256
        ELSE 0]

\* one puzzle hash more than a statement has variables
ManyPuzzleHashes == {bytes32_of(i) : i \in 1..SQLITE_MAX_VARIABLE_NUMBER + 1}

\* two farmers without points, one of them with either puzzle hash, and every
\* set of the two puzzle hashes beside the set too large for one statement
LookupInputs ==
    [records |-> {FarmerRecord(L1, PH1, KEY1, TIP1, STATE1, PyInt(0), PyInt(1),
                               PAYOUT_LOWER, TRUE),
                  FarmerRecord(L2, PH1, KEY1, TIP1, STATE1, PyInt(0), PyInt(1),
                               PAYOUT_LOWER, TRUE),
                  FarmerRecord(L2, PH2, KEY2, TIP2, STATE2, PyInt(0), PyInt(1),
                               PAYOUT_UPPER, FALSE)},
     launcher_ids |-> {L1}, difficulties |-> {PyInt(1)},
     singletons |-> {[singleton_tip |-> TIP1, singleton_tip_state |-> STATE1,
                      is_pool_member |-> TRUE]},
     partials |-> {PartialOf(L1, PyInt(10), PyInt(1))},
     counts |-> {SignedInt(FALSE, 1)}, ledger_cap |-> MaxPartials,
     puzzle_hash_sets |-> SUBSET {PH1, PH2} \cup {ManyPuzzleHashes}]

\* the coroutines interleave at every await; at most k callers are between
\* the first and the last await of their handler (or of the payout round).
\* The tasks of the front end run the same handlers: the second one takes a
\* request only while the first is busy with one
Scheduled(t, k, role) ==
    /\ t \in role
    /\ Cardinality({u \in Procs \ {t} : pc[u] # "idle"}) < k
    /\ (t = "fe2" /\ pc[t] = "idle") => pc["fe"] # "idle"

Interleaved(k, in) ==
    \E t \in Procs :
        \/ /\ Scheduled(t, k, FrontEnd)
           /\ \E r \in in.records : add_farmer_record_execute(t, r)
        \/ /\ Scheduled(t, k, FrontEnd)
           /\ add_farmer_record_commit(t)
        \/ /\ Scheduled(t, k, FrontEnd)
           /\ \E id \in in.launcher_ids : get_farmer_record_execute(t, id)
        \/ /\ Scheduled(t, k, FrontEnd)
           /\ get_farmer_record_fetchone(t)
        \/ /\ Scheduled(t, k, FrontEnd)
           /\ \E id \in in.launcher_ids, d \in in.difficulties :
                  update_difficulty_execute(t, id, d)
        \/ /\ Scheduled(t, k, FrontEnd)
           /\ update_difficulty_commit(t)
        \/ /\ Scheduled(t, k, FrontEnd)
           /\ Len(partial) < in.ledger_cap
           /\ \E p \in in.partials :
                  add_partial_execute(t, p.launcher_id, p.timestamp, p.difficulty)
        \/ /\ Scheduled(t, k, FrontEnd)
           /\ add_partial_commit(t)
        \/ /\ Scheduled(t, k, FrontEnd)
           /\ \E id \in in.launcher_ids, count \in in.counts :
                  get_recent_partials_execute(t, id, count)
        \/ /\ Scheduled(t, k, FrontEnd)
           /\ get_recent_partials_fetchall(t)
        \/ /\ Scheduled(t, k, SingletonReporter)
           /\ \E id \in in.launcher_ids, s \in in.singletons :
                  update_singleton_execute(t, id, s)
        \/ /\ Scheduled(t, k, SingletonReporter)
           /\ update_singleton_commit(t)
        \/ /\ Scheduled(t, k, ChainWatcher)
           /\ get_pay_to_singleton_phs_execute(t)
        \/ /\ Scheduled(t, k, ChainWatcher)
           /\ get_pay_to_singleton_phs_fetchall(t)
        \/ /\ Scheduled(t, k, ChainWatcher)
           /\ \E puzzle_hashes \in in.puzzle_hash_sets :
                  get_farmer_records_for_p2_singleton_phs_execute(t, puzzle_hashes)
        \/ /\ Scheduled(t, k, ChainWatcher)
           /\ get_farmer_records_for_p2_singleton_phs_fetchall(t)
        \/ /\ Scheduled(t, k, Payout)
           /\ get_farmer_points_and_payout_instructions_execute(t)
        \/ /\ Scheduled(t, k, Payout)
           /\ get_farmer_points_and_payout_instructions_fetchall(t)
        \/ /\ Scheduled(t, k, Payout)
           /\ clear_farmer_points_execute(t)
        \/ /\ Scheduled(t, k, Payout)
           /\ clear_farmer_points_commit(t)

\* one handler at a time, all inputs
NextSequential == Interleaved(1, AllInputs)

\* interleaved handlers, few inputs
Next == Interleaved(MaxInFlight, FewInputs)

\* one handler at a time, the inputs of the recency query
NextLedger == Interleaved(1, LedgerInputs)

\* one handler at a time, the inputs of the lookup by puzzle hashes
NextLookup == Interleaved(1, LookupInputs)

\* interleaved handlers, one farmer
NextOneFarmer == Interleaved(MaxInFlight, OneFarmerInputs)

SpecSequential == Init /\ [][NextSequential]_vars

SpecOneFarmer == Init /\ [][NextOneFarmer]_vars

SpecLedger == Init /\ [][NextLedger]_vars

SpecLookup == Init /\ [][NextLookup]_vars

Spec == Init /\ [][Next]_vars

---------------------------------------------------------------------------
(* Properties.                                                             *)

\* the step just taken ran the statement of handler op, or raised out of it
Ran(step, op) == step.op = op /\ step.step \in {"execute", "raise"}

\* get_farmer_record finds an account
Exists(tbl, launcher_id) ==
    select_farmer_by_launcher_id(tbl, BindText(hex(launcher_id))) # <<>>

Triple(x) == <<x.singleton_tip, x.singleton_tip_state, x.is_pool_member>>

\* every account but launcher_id is the same in both tables
OthersUnchanged(before, after, launcher_id) ==
    \A id \in LauncherIds \ {launcher_id} : Get(after, id) = Get(before, id)

\* C1: update_singleton on an existing account makes a following
\* get_farmer_record return the supplied tip, tip state and membership, with
\* the six other fields of the account and every other account unchanged.
C1_UpdateSingletonReplacesTriple ==
    [][(/\ last'.op = "update_singleton" /\ last'.step = "execute"
        /\ Exists(farmer, last'.arg.launcher_id))
       => LET a == last'.arg
          IN  /\ Get(farmer', a.launcher_id)
                   = [kind |-> "FarmerRecord",
                      val |-> [Get(farmer, a.launcher_id).val
                                 EXCEPT !.singleton_tip = a.singleton_tip,
                                        !.singleton_tip_state = a.singleton_tip_state,
                                        !.is_pool_member = a.is_pool_member]]
              /\ OthersUnchanged(farmer, farmer', a.launcher_id)]_vars

\* C2: when the last of several overlapping update_singleton calls on one
\* existing account returns (no other write to the account ran meanwhile),
\* the account holds the triple of exactly one of these calls.
C2_ConcurrentUpdateSingletonOneTriple ==
    [][(/\ last'.op = "update_singleton" /\ last'.step = "return"
        /\ cur[last'.proc].overlap # {}
        /\ \A e \in cur[last'.proc].overlap : e.op = "update_singleton"
        /\ \A u \in Callers \ {last'.proc} :
               ~InUpdateSingleton(u, cur[last'.proc].arg.launcher_id)
        /\ Exists(farmer', cur[last'.proc].arg.launcher_id))
       => LET c == cur[last'.proc]
          IN  Triple(Get(farmer', c.arg.launcher_id).val)
                  \in {Triple(c.arg)} \cup {Triple(e.arg) : e \in c.overlap}]_vars

\* the points the aggregation of the round counted for an account
RECURSIVE CountedPoints(_, _)
CountedPoints(seen, launcher_id) ==
    IF seen = <<>> THEN PyInt(0)
    ELSE IF Head(seen).launcher_id = launcher_id
         THEN Add(Head(seen).points, CountedPoints(Tail(seen), launcher_id))
    ELSE CountedPoints(Tail(seen), launcher_id)

\* C3: in a payout round (aggregate, then clear) the points the clear zeroes
\* are, for every account, exactly the points the aggregation counted.
C3_PayoutRoundCountsWhatItClears ==
    [][(/\ last'.op = "clear_farmer_points" /\ last'.step = "execute"
        /\ last'.arg.round)
       => \A i \in 1..Len(farmer) :
              farmer[i].points
                  = CountedPoints(cur[last'.proc].seen, farmer[i].launcher_id)]_vars

PayoutStrings(tbl) == {tbl[i].payout_instructions : i \in 1..Len(tbl)}

\* the sum of the points of the accounts whose payout_instructions is s
RECURSIVE PointsOf(_, _)
PointsOf(tbl, s) ==
    IF tbl = <<>> THEN PyInt(0)
    ELSE IF Head(tbl).payout_instructions = s
         THEN Add(Head(tbl).points, PointsOf(Tail(tbl), s))
    ELSE PointsOf(Tail(tbl), s)

\* C4: get_farmer_points_and_payout_instructions returns one pair for every
\* distinct payout_instructions string of the registry and no other, with the
\* sum of the points of the accounts holding exactly that string (zero sums
\* included).
C4_OnePairPerPayoutString ==
    (last.op = "get_farmer_points_and_payout_instructions"
         /\ last.step \in {"return", "raise"})
    => /\ last.out.kind = "list"
       /\ Len(last.out.val) = Cardinality(PayoutStrings(farmer))
       /\ \A s \in PayoutStrings(farmer) :
              \E i \in 1..Len(last.out.val) :
                  /\ last.out.val[i].ph = fromhex(s).val
                  /\ last.out.val[i].total_points = PointsOf(farmer, s)

\* C5: update_difficulty with difficulty 0 is rejected with InvalidArgument
\* and leaves the registry as it was.
C5_ZeroDifficultyRejected ==
    [][(Ran(last', "update_difficulty") /\ last'.arg.difficulty = PyInt(0))
       => /\ last'.step = "raise"
          /\ last'.out.kind = "InvalidArgument"
          /\ farmer' = farmer]_vars

\* C6: every stored account has difficulty > 0, in every reachable state.
C6_DifficultyNeverZero ==
    \A i \in 1..Len(farmer) : farmer[i].difficulty # PyInt(0)

\* C7: update_difficulty with difficulty > 0 changes only the difficulty of
\* the account with that launcher_id (its other eight fields, the other
\* accounts and the ledger stay); with no such account it succeeds and
\* changes nothing.
C7_UpdateDifficultyChangesOnlyDifficulty ==
    [][(Ran(last', "update_difficulty") /\ last'.arg.difficulty # PyInt(0))
       => /\ Len(farmer') = Len(farmer)
          /\ \A i \in 1..Len(farmer) :
                 /\ farmer'[i] = [farmer[i] EXCEPT !.difficulty = farmer'[i].difficulty]
                 /\ farmer[i].launcher_id # hex(last'.arg.launcher_id)
                        => farmer'[i] = farmer[i]
          /\ partial' = partial
          /\ ~Exists(farmer, last'.arg.launcher_id)
                 => last'.step = "execute" /\ farmer' = farmer]_vars

\* C8: add_farmer_record(r) followed by get_farmer_record(r.launcher_id)
\* returns a record equal to r in all nine fields, for every record r with
\* uint64 points and difficulty.
C8_UpsertThenGetReturnsRecord ==
    Ran(last, "add_farmer_record")
    => Get(farmer, last.arg.launcher_id) = [kind |-> "FarmerRecord", val |-> last.arg]

\* C9: add_farmer_record(r) on an existing launcher_id raises nothing and
\* replaces the account: one row with that key, equal to r in all nine
\* fields, the other accounts unchanged; launcher_id is unique in the table.
C9_UpsertReplacesExisting ==
    [][/\ (Ran(last', "add_farmer_record") /\ Exists(farmer, last'.arg.launcher_id))
          => /\ last'.step = "execute"
             /\ Cardinality(MatchingRows(farmer', BindText(hex(last'.arg.launcher_id)))) = 1
             /\ Get(farmer', last'.arg.launcher_id).val = last'.arg
             /\ OthersUnchanged(farmer, farmer', last'.arg.launcher_id)
       /\ \A i, j \in 1..Len(farmer') :
              farmer'[i].launcher_id = farmer'[j].launcher_id => i = j]_vars

\* C10: clear_farmer_points sets the points of every account to 0, whatever
\* they were, and changes nothing else: the same accounts in the same rows
\* with their other eight fields, and the ledger.
C10_ClearZeroesPointsOnly ==
    [][(last'.op = "clear_farmer_points" /\ last'.step = "execute")
       => /\ Len(farmer') = Len(farmer)
          /\ \A i \in 1..Len(farmer) :
                 farmer'[i] = [farmer[i] EXCEPT !.points = PyInt(0)]
          /\ partial' = partial]_vars

\* a clear has just run on two accounts, one that held points and one that
\* held none, with an entry in the ledger
C10_Witness ==
    /\ last.op = "clear_farmer_points" /\ last.step = "execute"
    /\ Len(farmer) = 2 /\ last.arg.nonzero = 1
    /\ \E i \in 1..Len(farmer) : farmer[i].is_pool_member = 0
    /\ partial # <<>>

\* C11: no step other than the statement of clear_farmer_points lowers the
\* points of an existing account.
C11_PointsDecreaseOnlyByClear ==
    [][~(last'.op = "clear_farmer_points" /\ last'.step = "execute")
       => \A id \in LauncherIds :
              (Exists(farmer, id) /\ Exists(farmer', id))
              => LessEq(Get(farmer, id).val.points, Get(farmer', id).val.points)]_vars

\* the positions of the ledger entries of launcher_id
EntriesOf(tbl, launcher_id) == {i \in 1..Len(tbl) : tbl[i].launcher_id = hex(launcher_id)}

\* out is k of the entries at positions E of the ledger (or all of them when
\* they are fewer), none twice, latest first, and no entry left out is later
\* than one returned
MostRecent(out, tbl, E, k) ==
    /\ Len(out) = (IF k < Cardinality(E) THEN k ELSE Cardinality(E))
    /\ \A i \in 1..Len(out) - 1 : LessEq(out[i + 1][1], out[i][1])
    /\ \E f \in [1..Len(out) -> E] :
           /\ \A i, j \in 1..Len(out) : f[i] = f[j] => i = j
           /\ \A i \in 1..Len(out) :
                  out[i] = <<tbl[f[i]].timestamp, tbl[f[i]].difficulty>>
           /\ \A j \in E \ {f[i] : i \in 1..Len(out)} :
                  \A i \in 1..Len(out) : LessEq(tbl[j].timestamp, out[i][1])

\* count as a number of rows: a count beyond the size of the ledger asks for
\* as many entries as a count of that size
RowCount(count) ==
    IF LessEq(int_digits(Len(partial)), count.abs) THEN Len(partial)
    ELSE int_value(count.abs)

ReturnedMostRecent ==
    /\ last.step = "return"
    /\ last.out.kind = "list"
    /\ MostRecent(last.out.val, partial, EntriesOf(partial, last.arg.launcher_id),
                  RowCount(last.arg.count))

\* C12 as stated: get_recent_partials(id, k) with any k > 0 returns the
\* min(k, n) latest of the n entries of id, latest first.
C12_RecentPartialsAnyCount ==
    (/\ last.op = "get_recent_partials" /\ last.step \in {"return", "raise"}
     /\ ~last.arg.count.neg /\ last.arg.count.abs # PyInt(0))
    => ReturnedMostRecent

\* C12 amended: get_recent_partials(id, k) with 0 < k < 2^63 returns only
\* entries of id, min(k, n) of its n entries, latest first, none left out
\* being later than one returned.
C12_RecentPartialsUpToSqliteMax ==
    (/\ last.op = "get_recent_partials" /\ last.step \in {"return", "raise"}
     /\ ~last.arg.count.neg /\ last.arg.count.abs # PyInt(0)
     /\ LessEq(last.arg.count.abs, SQLITE_MAX_INT))
    => ReturnedMostRecent

\* one of two entries of a farmer is returned, the later one, while another
\* farmer has an entry too
C12_Witness ==
    /\ last.op = "get_recent_partials" /\ last.step = "return"
    /\ last.arg.launcher_id = L1 /\ last.arg.count = SignedInt(FALSE, 1)
    /\ Cardinality(EntriesOf(partial, L1)) = 2
    /\ EntriesOf(partial, L2) # {}
    /\ last.out.val = <<<<PyInt(20), PyInt(1)>>>>
    /\ partial[1].timestamp = PyInt(20)

\* C13: get_recent_partials(id, limit) with limit <= 0 returns the empty list,
\* however many entries id has.
C13_NoEntriesForNonPositiveCount ==
    (/\ last.op = "get_recent_partials" /\ last.step \in {"return", "raise"}
     /\ (last.arg.count.neg \/ last.arg.count.abs = PyInt(0)))
    => /\ last.step = "return"
       /\ last.out.val = <<>>

\* C14: add_partial appends exactly one entry with the values given and
\* succeeds; no other step adds, removes or alters a ledger entry.
C14_LedgerAppendOnly ==
    [][IF Ran(last', "add_partial")
       THEN /\ last'.step = "execute"
            /\ partial' = Append(partial,
                                 [launcher_id |-> hex(last'.arg.launcher_id),
                                  timestamp |-> last'.arg.timestamp,
                                  difficulty |-> last'.arg.difficulty])
       ELSE partial' = partial]_vars

\* C15: an account exists exactly from the first add_farmer_record with its
\* launcher_id on (no step removes one, no other step creates one), and
\* get_farmer_record returns the record or None accordingly, without error.
C15_AccountsExistFromFirstUpsert ==
    [][/\ \A id \in LauncherIds :
              Exists(farmer', id)
              <=> \/ Exists(farmer, id)
                  \/ Ran(last', "add_farmer_record") /\ last'.arg.launcher_id = id
       /\ (last'.op = "get_farmer_record" /\ last'.step = "return")
              => last'.out = Get(farmer, last'.arg.launcher_id)]_vars

\* the positions of the accounts whose puzzle hash is one of puzzle_hashes
AccountsOf(tbl, puzzle_hashes) ==
    {i \in 1..Len(tbl) :
        row_to_farmer_record(tbl[i]).p2_singleton_puzzle_hash \in puzzle_hashes}

\* the last step returned the record of every account whose
\* p2_singleton_puzzle_hash is in H, each once, and no other record
ReturnedAccountsOf ==
    LET H == last.arg.puzzle_hashes
        out == last.out.val
    IN  /\ last.step = "return"
        /\ last.out.kind = "list"
        /\ Len(out) = Cardinality(AccountsOf(farmer, H))
        /\ \A i \in AccountsOf(farmer, H) :
               \E j \in 1..Len(out) : out[j] = row_to_farmer_record(farmer[i])
        /\ \A j \in 1..Len(out) : out[j].p2_singleton_puzzle_hash \in H
        /\ H = {} => out = <<>>

\* C16: get_farmer_records_for_p2_singleton_phs(H) returns, for every
\* set H, the record of every account whose p2_singleton_puzzle_hash is in H,
\* each once, and no other record; for the empty H it returns the empty list.
C16_LookupAnySet ==
    (/\ last.op = "get_farmer_records_for_p2_singleton_phs"
     /\ last.step \in {"return", "raise"})
    => ReturnedAccountsOf

\* C16 for the sets one statement can bind: for a set H of at most
\* SQLITE_MAX_VARIABLE_NUMBER puzzle hashes the lookup returns the record of
\* every account whose p2_singleton_puzzle_hash is in H, each once, and no
\* other record; for the empty H it returns the empty list.
C16_LookupByPuzzleHashes ==
    (/\ last.op = "get_farmer_records_for_p2_singleton_phs"
     /\ last.step \in {"return", "raise"}
     /\ Cardinality(last.arg.puzzle_hashes) <= SQLITE_MAX_VARIABLE_NUMBER)
    => ReturnedAccountsOf

\* a lookup of one hash has returned one of two accounts, the other account
\* having another hash
C16_Witness ==
    /\ last.op = "get_farmer_records_for_p2_singleton_phs" /\ last.step = "return"
    /\ last.arg.puzzle_hashes = {PH2}
    /\ Len(farmer) = 2
    /\ Len(last.out.val) = 1
    /\ last.out.val[1].launcher_id = L2

MutatingOps ==
    {"add_farmer_record", "update_difficulty", "update_singleton", "add_partial",
     "clear_farmer_points"}

\* C17: when a mutating handler returns, its write is committed: the caller
\* has no statement in the open transaction and the durable database holds
\* the tables as the connection sees them, whatever the interleaving.
C17_ReturnedWritesAreCommitted ==
    (last.step = "return" /\ last.op \in MutatingOps)
    => /\ last.proc \notin txn
       /\ committed = [farmer |-> farmer, partial |-> partial]

\* add_farmer_record has returned while the payout engine, whose clear ran
\* after the front end's INSERT, has not committed yet
C17_Witness ==
    /\ last.op = "add_farmer_record" /\ last.step = "return" /\ last.proc = "fe"
    /\ pc[PayoutEngine] = "commit"
    /\ farmer # <<>>
    /\ \A i \in 1..Len(farmer) : farmer[i].points = PyInt(0)

\* C18: a read never returns part of a write.  get_farmer_record reads a
\* whole row of the table as one statement left it; a lookup overlapped by
\* clear_farmer_points alone returns the accounts the clear changed either all
\* with their points reset or all without.
C18_ReadsSeeWholeWrites ==
    [][LET c == cur[last'.proc]
       IN  /\ (last'.op = "get_farmer_record" /\ last'.step = "execute")
              => \A r \in Range(cur'[last'.proc].rows) : r \in Range(farmer)
           /\ (/\ last'.op = "get_farmer_records_for_p2_singleton_phs"
               /\ last'.step = "return"
               /\ c.overlap # {}
               /\ \A e \in c.overlap : e.op = "clear_farmer_points")
              => \A e \in c.overlap :
                     LET changed == {j \in 1..Len(last'.out.val) :
                                        hex(last'.out.val[j].launcher_id) \in e.arg.changed}
                     IN  \/ \A j \in changed : last'.out.val[j].points = PyInt(0)
                         \/ \A j \in changed : last'.out.val[j].points # PyInt(0)]_vars

\* C19: the rows a read statement reads are rows of the committed tables: a
\* read between another caller's write statement and its commit does not
\* return the uncommitted write.
C19_ReadsOnlyCommitted ==
    [][LET rows == cur'[last'.proc].rows
       IN  last'.step = "execute" =>
           /\ last'.op \in {"get_farmer_record", "get_pay_to_singleton_phs",
                            "get_farmer_records_for_p2_singleton_phs"}
                  => \A r \in Range(rows) : r \in Range(committed.farmer)
           /\ last'.op = "get_farmer_points_and_payout_instructions"
                  => \A r \in Range(rows) :
                         \E i \in 1..Len(committed.farmer) :
                             r = points_and_payout(committed.farmer[i])
           /\ last'.op = "get_recent_partials"
                  => \A r \in Range(rows) :
                         \E i \in EntriesOf(committed.partial, last'.arg.launcher_id) :
                             /\ r.timestamp = committed.partial[i].timestamp
                             /\ r.difficulty = committed.partial[i].difficulty]_vars

\* the stored row of launcher_id
RowOf(tbl, launcher_id) == select_farmer_by_launcher_id(tbl, BindText(hex(launcher_id)))[1]

\* C20: a registered account stays registered, and its is_pool_member changes
\* only in the statement of an update_singleton on that account.
C20_MembershipChangesOnlyByUpdateSingleton ==
    [][\A id \in LauncherIds :
           Exists(farmer, id)
           => /\ Exists(farmer', id)
              /\ RowOf(farmer, id).is_pool_member # RowOf(farmer', id).is_pool_member
                     => /\ last'.op = "update_singleton"
                        /\ last'.step = "execute"
                        /\ last'.arg.launcher_id = id]_vars

=============================================================================
